---- MODULE Spec2Model ----
(***************************************************************************)
(* A model of torchbiggraph/config.py: the ConfigFileLoader life cycle on  *)
(* the shared module-search path, the override engine                      *)
(* (override_config_dict), the cross-field validation of ConfigSchema,     *)
(* parse_config and the command-line utility main.                         *)
(*                                                                         *)
(* Python strings are sequences of one-character TLA+ strings, Python      *)
(* values are tagged records [t |-> <kind>, v |-> <payload>].              *)
(***************************************************************************)
EXTENDS Integers, Sequences, FiniteSets, TLC

(***************************************************************************)
(* Bounds of the model.                                                    *)
(***************************************************************************)
MaxLoaders == 2
MaxOverrides == 2
MaxLists == 2
MaxRelations == 2
MaxUnits == 2

Loaders == 1..MaxLoaders

VARIABLES
    sys_path,   \* sys.path: the process-wide module-search path (a list)
    disk,       \* the temporary directories that exist on disk
    loader,     \* per ConfigFileLoader object: its position and attributes
    config_dict,\* override_config_dict: the object its parameter names
    overrides,  \* override_config_dict: the argument overrides, as given
    ov_iter,    \* what is left of chain.from_iterable(overrides)
    override,   \* the loop variable: the override being, or last, processed
    ov_pc,      \* "idle", "loop", "returned" or "raised"
    ov_err,     \* the error the call raised
    built,      \* the last construction of a ConfigSchema and its outcome
    log,        \* the records logged, in order
    parse,      \* parse_config: its position, argument and outcome
    main_pc,    \* main: its position
    opt,        \* main: the parsed command-line arguments
    ov_arg,     \* main: its local overrides
    stdout,     \* main: what it printed
    files,      \* the copied config files: (directory number, unit number)
    sys_modules,\* sys.modules: the load units that are imported
    load,       \* per loader: its run of load_raw_config and what it loaded
    raw_config, \* the caller's raw configuration object, as it is now
    ov_given,   \* the caller's raw configuration as it was at the call
    ov_ref,     \* which object config_dict names: "caller", "copy" or "none"
    ov_ret      \* which object the call returned ("none": it has not)

loader_vars == <<sys_path, disk, loader>>
ov_vars == <<config_dict, overrides, ov_iter, override, ov_pc, ov_err,
             raw_config, ov_given, ov_ref, ov_ret>>
val_vars == <<built, log, parse>>
main_vars == <<main_pc, opt, ov_arg, stdout>>
load_vars == <<files, sys_modules, load>>
vars == <<loader_vars, ov_vars, val_vars, main_vars, load_vars>>
other_than_loader == <<ov_vars, val_vars, main_vars, load_vars>>
other_than_ov == <<loader_vars, val_vars, main_vars, load_vars>>
other_than_val == <<loader_vars, ov_vars, main_vars, load_vars>>
other_than_main == <<loader_vars, ov_vars, val_vars, load_vars>>
other_than_load == <<loader_vars, ov_vars, val_vars, main_vars>>

(***************************************************************************)
(* sys.path and the temporary directories.                                 *)
(***************************************************************************)

\* The entries of sys.path before any loader exists.
BasePath == << <<"site-packages", 0>>, <<"cwd", 0>> >>

\* tempfile.TemporaryDirectory(prefix="torchbiggraph_config_").name of the
\* n-th directory made: tempfile draws the suffix at random, a drawn name is
\* never drawn again.
TmpName(n) == <<"torchbiggraph_config_", n>>

IsTmpName(e) == e[1] = "torchbiggraph_config_"

\* The index of the first occurrence of x in list s, 0 when absent.
IndexOf(s, x) ==
    IF \E i \in 1..Len(s) : s[i] = x
    THEN CHOOSE i \in 1..Len(s) : s[i] = x /\ \A j \in 1..(i - 1) : s[j] # x
    ELSE 0

\* A positional removal: what list.pop() would do in place of list.remove(x).
ListPopLast(s, x) == SubSeq(s, 1, Len(s) - 1)

\* list.remove(x): the list without the first occurrence of x
\* (the caller checks that x occurs; Python raises ValueError otherwise).
ListRemove(s, x) ==
    LET i == IndexOf(s, x)
    IN  SubSeq(s, 1, i - 1) \o SubSeq(s, i + 1, Len(s))

Count(s, x) == Cardinality({i \in 1..Len(s) : s[i] = x})

(***************************************************************************)
(* ConfigFileLoader.  A loader object l:                                   *)
(*   pc     where the object is: "unborn", inside __init__ ("made": the    *)
(*          directory exists, "ref": self.sys_path is bound), "idle" (no   *)
(*          method running), inside __del__ ("d_remove", "d_cleanup"),     *)
(*          "dead" (deallocated);                                          *)
(*   stage  how many statements of __init__ completed (0..3);              *)
(*   dir    the number of its temporary directory (0: none);               *)
(*   mode   who runs __del__: "explicit" (a caller) or "gc" (the           *)
(*          interpreter, at deallocation);                                 *)
(*   exc    the exception the last run of __del__ raised ("none");         *)
(*   detached  whether TemporaryDirectory.cleanup() has detached the       *)
(*          directory's own finalizer.                                     *)
(***************************************************************************)

NewLoader == [pc |-> "unborn", stage |-> 0, dir |-> 0, mode |-> "none",
              exc |-> "none", detached |-> FALSE]

UsedDirs == {loader[l].dir : l \in Loaders} \ {0}

\* __init__, line 479: the temporary directory is made.
InitMakeDir(l) ==
    /\ loader[l].pc = "unborn"
    /\ \E n \in Loaders \ UsedDirs :
          /\ loader' = [loader EXCEPT ![l].pc = "made", ![l].stage = 1,
                                      ![l].dir = n]
          /\ disk' = disk \cup {TmpName(n)}
    /\ UNCHANGED sys_path

\* __init__, line 479: tempfile raises (no usable temporary directory):
\* __init__ raises, the object exists without attributes.
InitMakeDirFails(l) ==
    /\ loader[l].pc = "unborn"
    /\ loader' = [loader EXCEPT ![l].pc = "idle"]
    /\ UNCHANGED <<sys_path, disk>>

\* __init__, line 481: self.sys_path = sys.path.
InitBindPath(l) ==
    /\ loader[l].pc = "made"
    /\ loader' = [loader EXCEPT ![l].pc = "ref", ![l].stage = 2]
    /\ UNCHANGED <<sys_path, disk>>

\* __init__, line 482: self.sys_path.append(self.config_dir.name).
InitAppend(l) ==
    /\ loader[l].pc = "ref"
    /\ sys_path' = Append(sys_path, TmpName(loader[l].dir))
    /\ loader' = [loader EXCEPT ![l].pc = "idle", ![l].stage = 3]
    /\ UNCHANGED disk

\* An asynchronous exception (KeyboardInterrupt) between two statements of
\* __init__: __init__ raises with the attributes set so far.
InitInterrupted(l) ==
    /\ loader[l].pc \in {"made", "ref"}
    /\ loader' = [loader EXCEPT ![l].pc = "idle"]
    /\ UNCHANGED <<sys_path, disk>>

\* A caller runs loader.__del__() on an object it holds (any number of
\* times: the object stays alive).  Only an object whose __init__ returned
\* has a holder.
DelCalled(l) ==
    /\ loader[l].pc = "idle"
    /\ loader[l].stage = 3
    /\ loader' = [loader EXCEPT ![l].pc = "d_remove", ![l].mode = "explicit",
                                ![l].exc = "none"]
    /\ UNCHANGED <<sys_path, disk>>

\* The last reference goes: the interpreter runs __del__ once.
DelByGc(l) ==
    /\ loader[l].pc = "idle"
    /\ loader' = [loader EXCEPT ![l].pc = "d_remove", ![l].mode = "gc",
                                ![l].exc = "none"]
    /\ UNCHANGED <<sys_path, disk>>

\* What follows a run of __del__ that has ended (returned or raised), d
\* being the directories on disk at that point: an explicit call goes back
\* to its caller; at deallocation the object's attributes go, and the
\* TemporaryDirectory's own finalizer, unless detached, removes the
\* directory.
AfterDel(l, exc, detached, d) ==
    /\ loader' = [loader EXCEPT
           ![l].pc = IF loader[l].mode = "gc" THEN "dead" ELSE "idle",
           ![l].exc = exc,
           ![l].detached = detached]
    /\ disk' = IF loader[l].mode = "gc" /\ loader[l].stage >= 1 /\ ~detached
               THEN d \ {TmpName(loader[l].dir)}
               ELSE d

\* __del__, line 485: self.sys_path.remove(self.config_dir.name).
DelRemove(l) ==
    /\ loader[l].pc = "d_remove"
    /\ IF loader[l].stage < 2
       THEN \* self.sys_path (or self.config_dir) was never set
            /\ AfterDel(l, "AttributeError", loader[l].detached, disk)
            /\ UNCHANGED sys_path
       ELSE IF IndexOf(sys_path, TmpName(loader[l].dir)) = 0
       THEN \* list.remove(x): x not in list
            /\ AfterDel(l, "ValueError", loader[l].detached, disk)
            /\ UNCHANGED sys_path
       ELSE /\ sys_path' = ListRemove(sys_path, TmpName(loader[l].dir))
            /\ loader' = [loader EXCEPT ![l].pc = "d_cleanup"]
            /\ UNCHANGED disk

\* __del__, line 486: self.config_dir.cleanup().  The finalizer is detached
\* and the directory removed.  When the directory is already gone the
\* removal raises FileNotFoundError or passes, by the version of tempfile.
DelCleanup(l) ==
    /\ loader[l].pc = "d_cleanup"
    /\ UNCHANGED sys_path
    /\ IF TmpName(loader[l].dir) \in disk
       THEN AfterDel(l, "none", TRUE, disk \ {TmpName(loader[l].dir)})
       ELSE \E e \in {"none", "FileNotFoundError"} :
               AfterDel(l, e, TRUE, disk)

\* The directory of a live loader is deleted from outside (a teardown race).
DirVanishes(l) ==
    /\ loader[l].pc \in {"idle", "d_remove", "d_cleanup"}
    /\ TmpName(loader[l].dir) \in disk
    /\ disk' = disk \ {TmpName(loader[l].dir)}
    /\ UNCHANGED <<sys_path, loader>>

LoaderInit ==
    /\ sys_path = BasePath
    /\ disk = {}
    /\ loader = [l \in Loaders |-> NewLoader]

LoaderNext ==
    \E l \in Loaders :
        \/ InitMakeDir(l) /\ UNCHANGED other_than_loader
        \/ InitMakeDirFails(l) /\ UNCHANGED other_than_loader
        \/ InitBindPath(l) /\ UNCHANGED other_than_loader
        \/ InitAppend(l) /\ UNCHANGED other_than_loader
        \/ InitInterrupted(l) /\ UNCHANGED other_than_loader
        \/ DelCalled(l) /\ UNCHANGED other_than_loader
        \/ DelByGc(l) /\ UNCHANGED other_than_loader
        \/ DelRemove(l) /\ UNCHANGED other_than_loader
        \/ DelCleanup(l) /\ UNCHANGED other_than_loader
        \/ DirVanishes(l) /\ UNCHANGED other_than_loader

(***************************************************************************)
(* Python values.  A string is a sequence of characters; a dict is a       *)
(* function from strings to values; a float is the decimal num / 10^scale  *)
(* with no trailing zero in its fraction.                                  *)
(***************************************************************************)

PyStr(s) == [t |-> "str", v |-> s]
PyInt(n) == [t |-> "int", v |-> n]
PyFloat(num, scale) == [t |-> "float", v |-> <<"finite", num, scale>>]
FloatSpecial(k) == [t |-> "float", v |-> <<k, 0, 0>>]
PyList(xs) == [t |-> "list", v |-> xs]
PyDict(f) == [t |-> "dict", v |-> f]
None == [t |-> "none", v |-> <<>>]

EmptyDict == PyDict(<<>>)

\* d[k] = x on a dict's mapping.
DictSet(f, k, x) == [y \in (DOMAIN f) \cup {k} |-> IF y = k THEN x ELSE f[y]]

(***************************************************************************)
(* str.rpartition, str.split, int(str), float(str).                        *)
(***************************************************************************)

FirstIndexOf(s, c) ==
    IF \E i \in 1..Len(s) : s[i] = c
    THEN CHOOSE i \in 1..Len(s) : s[i] = c /\ \A j \in 1..(i - 1) : s[j] # c
    ELSE 0

LastIndexOf(s, c) ==
    IF \E i \in 1..Len(s) : s[i] = c
    THEN CHOOSE i \in 1..Len(s) :
            s[i] = c /\ \A j \in (i + 1)..Len(s) : s[j] # c
    ELSE 0

\* s.partition(c): the split at the first c.
Partition(s, c) ==
    LET i == FirstIndexOf(s, c)
    IN  IF i = 0 THEN <<s, <<>>, <<>>>>
        ELSE <<SubSeq(s, 1, i - 1), <<c>>, SubSeq(s, i + 1, Len(s))>>

\* s.rpartition(c): the split at the last c; without a c, ("", "", s).
RPartition(s, c) ==
    LET i == LastIndexOf(s, c)
    IN  IF i = 0 THEN <<<<>>, <<>>, s>>
        ELSE <<SubSeq(s, 1, i - 1), <<c>>, SubSeq(s, i + 1, Len(s))>>

\* s.split(c): the pieces of s between the occurrences of c ("" gives [""]).
RECURSIVE Split(_, _)
Split(s, c) ==
    LET i == FirstIndexOf(s, c)
    IN  IF i = 0 THEN <<s>>
        ELSE <<SubSeq(s, 1, i - 1)>> \o Split(SubSeq(s, i + 1, Len(s)), c)

Digits == {"0", "1", "2", "3", "4", "5", "6", "7", "8", "9"}

DigitVal(c) ==
    CASE c = "0" -> 0 [] c = "1" -> 1 [] c = "2" -> 2 [] c = "3" -> 3
      [] c = "4" -> 4 [] c = "5" -> 5 [] c = "6" -> 6 [] c = "7" -> 7
      [] c = "8" -> 8 [] c = "9" -> 9

IsDigit(c) == c \in Digits

RECURSIVE DigitsValue(_)
DigitsValue(ds) ==
    IF ds = <<>> THEN 0
    ELSE DigitsValue(SubSeq(ds, 1, Len(ds) - 1)) * 10 + DigitVal(ds[Len(ds)])

\* A run of digits in which single underscores may stand between digits.
IsDigitGroup(b) ==
    /\ Len(b) > 0
    /\ IsDigit(b[1])
    /\ IsDigit(b[Len(b)])
    /\ \A i \in 1..Len(b) :
          \/ IsDigit(b[i])
          \/ b[i] = "_" /\ IsDigit(b[i - 1]) /\ IsDigit(b[i + 1])

HasSign(s) == Len(s) > 0 /\ s[1] \in {"-", "+"}
Unsigned(s) == IF HasSign(s) THEN Tail(s) ELSE s
SignOf(s) == IF Len(s) > 0 /\ s[1] = "-" THEN -1 ELSE 1

\* int(s): an optional sign and a digit group (the inputs hold no blanks).
ParseInt(s) ==
    LET b == Unsigned(s)
    IN  IF IsDigitGroup(b)
        THEN [ok |-> TRUE, val |-> PyInt(SignOf(s) * DigitsValue(SelectSeq(b, IsDigit)))]
        ELSE [ok |-> FALSE, val |-> None]

RECURSIVE NormalFloat(_, _)
NormalFloat(num, scale) ==
    IF scale > 0 /\ num % 10 = 0 THEN NormalFloat(num \div 10, scale - 1)
    ELSE PyFloat(num, scale)

s_inf == <<"i", "n", "f">>
s_nan == <<"n", "a", "n">>
s_infinity == <<"i", "n", "f", "i", "n", "i", "t", "y">>

\* float(s): an optional sign, then inf, infinity or nan, or digits with an
\* optional fraction ("1.", ".5" and "1" are floats, "." is not).  The inputs
\* hold no exponent, blank or upper-case letter.
ParseFloat(s) ==
    LET b == Unsigned(s)
        parts == Split(b, ".")
        ip == parts[1]
        fp == IF Len(parts) = 2 THEN parts[2] ELSE <<>>
        id == SelectSeq(ip, IsDigit)
        fd == SelectSeq(fp, IsDigit)
    IN  IF b \in {s_inf, s_infinity}
        THEN [ok |-> TRUE,
              val |-> FloatSpecial(IF SignOf(s) = 1 THEN "inf" ELSE "-inf")]
        ELSE IF b = s_nan
        THEN [ok |-> TRUE, val |-> FloatSpecial("nan")]
        ELSE IF /\ Len(parts) <= 2
                /\ ip # <<>> \/ fp # <<>>
                /\ ip = <<>> \/ IsDigitGroup(ip)
                /\ fp = <<>> \/ IsDigitGroup(fp)
        THEN [ok |-> TRUE,
              val |-> NormalFloat(SignOf(s) * DigitsValue(id \o fd), Len(fd))]
        ELSE [ok |-> FALSE, val |-> None]

\* The field names of the three schemas, as Python strings.
s_num_partitions == <<"n", "u", "m", "_", "p", "a", "r", "t", "i", "t", "i",
    "o", "n", "s">>
s_featurized == <<"f", "e", "a", "t", "u", "r", "i", "z", "e", "d">>
s_dimension == <<"d", "i", "m", "e", "n", "s", "i", "o", "n">>
s_name == <<"n", "a", "m", "e">>
s_lhs == <<"l", "h", "s">>
s_rhs == <<"r", "h", "s">>
s_weight == <<"w", "e", "i", "g", "h", "t">>
s_operator == <<"o", "p", "e", "r", "a", "t", "o", "r">>
s_all_negs == <<"a", "l", "l", "_", "n", "e", "g", "s">>
s_entities == <<"e", "n", "t", "i", "t", "i", "e", "s">>
s_relations == <<"r", "e", "l", "a", "t", "i", "o", "n", "s">>
s_init_scale == <<"i", "n", "i", "t", "_", "s", "c", "a", "l", "e">>
s_max_norm == <<"m", "a", "x", "_", "n", "o", "r", "m">>
s_global_emb == <<"g", "l", "o", "b", "a", "l", "_", "e", "m", "b">>
s_comparator == <<"c", "o", "m", "p", "a", "r", "a", "t", "o", "r">>
s_bias == <<"b", "i", "a", "s">>
s_loss_fn == <<"l", "o", "s", "s", "_", "f", "n">>
s_margin == <<"m", "a", "r", "g", "i", "n">>
s_entity_path == <<"e", "n", "t", "i", "t", "y", "_", "p", "a", "t", "h">>
s_edge_paths == <<"e", "d", "g", "e", "_", "p", "a", "t", "h", "s">>
s_checkpoint_path == <<"c", "h", "e", "c", "k", "p", "o", "i", "n", "t", "_",
    "p", "a", "t", "h">>
s_init_path == <<"i", "n", "i", "t", "_", "p", "a", "t", "h">>
s_checkpoint_preservation_interval == <<"c", "h", "e", "c", "k", "p", "o",
    "i", "n", "t", "_", "p", "r", "e", "s", "e", "r", "v", "a", "t", "i",
    "o", "n", "_", "i", "n", "t", "e", "r", "v", "a", "l">>
s_num_epochs == <<"n", "u", "m", "_", "e", "p", "o", "c", "h", "s">>
s_num_edge_chunks == <<"n", "u", "m", "_", "e", "d", "g", "e", "_", "c", "h",
    "u", "n", "k", "s">>
s_max_edges_per_chunk == <<"m", "a", "x", "_", "e", "d", "g", "e", "s", "_",
    "p", "e", "r", "_", "c", "h", "u", "n", "k">>
s_bucket_order == <<"b", "u", "c", "k", "e", "t", "_", "o", "r", "d", "e",
    "r">>
s_workers == <<"w", "o", "r", "k", "e", "r", "s">>
s_batch_size == <<"b", "a", "t", "c", "h", "_", "s", "i", "z", "e">>
s_num_batch_negs == <<"n", "u", "m", "_", "b", "a", "t", "c", "h", "_", "n",
    "e", "g", "s">>
s_num_uniform_negs == <<"n", "u", "m", "_", "u", "n", "i", "f", "o", "r",
    "m", "_", "n", "e", "g", "s">>
s_disable_lhs_negs == <<"d", "i", "s", "a", "b", "l", "e", "_", "l", "h",
    "s", "_", "n", "e", "g", "s">>
s_disable_rhs_negs == <<"d", "i", "s", "a", "b", "l", "e", "_", "r", "h",
    "s", "_", "n", "e", "g", "s">>
s_lr == <<"l", "r">>
s_relation_lr == <<"r", "e", "l", "a", "t", "i", "o", "n", "_", "l", "r">>
s_eval_fraction == <<"e", "v", "a", "l", "_", "f", "r", "a", "c", "t", "i",
    "o", "n">>
s_eval_num_batch_negs == <<"e", "v", "a", "l", "_", "n", "u", "m", "_", "b",
    "a", "t", "c", "h", "_", "n", "e", "g", "s">>
s_eval_num_uniform_negs == <<"e", "v", "a", "l", "_", "n", "u", "m", "_",
    "u", "n", "i", "f", "o", "r", "m", "_", "n", "e", "g", "s">>
s_background_io == <<"b", "a", "c", "k", "g", "r", "o", "u", "n", "d", "_",
    "i", "o">>
s_verbose == <<"v", "e", "r", "b", "o", "s", "e">>
s_hogwild_delay == <<"h", "o", "g", "w", "i", "l", "d", "_", "d", "e", "l",
    "a", "y">>
s_dynamic_relations == <<"d", "y", "n", "a", "m", "i", "c", "_", "r", "e",
    "l", "a", "t", "i", "o", "n", "s">>
s_num_machines == <<"n", "u", "m", "_", "m", "a", "c", "h", "i", "n", "e",
    "s">>
s_num_partition_servers == <<"n", "u", "m", "_", "p", "a", "r", "t", "i",
    "t", "i", "o", "n", "_", "s", "e", "r", "v", "e", "r", "s">>
s_distributed_init_method == <<"d", "i", "s", "t", "r", "i", "b", "u", "t",
    "e", "d", "_", "i", "n", "i", "t", "_", "m", "e", "t", "h", "o", "d">>
s_distributed_tree_init_order == <<"d", "i", "s", "t", "r", "i", "b", "u",
    "t", "e", "d", "_", "t", "r", "e", "e", "_", "i", "n", "i", "t", "_",
    "o", "r", "d", "e", "r">>
s_num_gpus == <<"n", "u", "m", "_", "g", "p", "u", "s">>
s_num_groups_for_partition_server == <<"n", "u", "m", "_", "g", "r", "o",
    "u", "p", "s", "_", "f", "o", "r", "_", "p", "a", "r", "t", "i", "t",
    "i", "o", "n", "_", "s", "e", "r", "v", "e", "r">>
s_half_precision == <<"h", "a", "l", "f", "_", "p", "r", "e", "c", "i", "s",
    "i", "o", "n">>

\* The fields of EntitySchema (lines 61-72) with their declared types.
EntitySchemaFields ==
    {<<s_num_partitions, "int">>,
     <<s_featurized, "bool">>,
     <<s_dimension, "Optional[int]">>}

\* The fields of RelationSchema (lines 84-111) with their declared types.
RelationSchemaFields ==
    {<<s_name, "str">>,
     <<s_lhs, "str">>,
     <<s_rhs, "str">>,
     <<s_weight, "float">>,
     <<s_operator, "str">>,
     <<s_all_negs, "bool">>}

\* The fields of ConfigSchema (lines 128-392) with their declared types.
ConfigSchemaFields ==
    {<<s_entities, "Dict[str, EntitySchema]">>,
     <<s_relations, "List[RelationSchema]">>,
     <<s_dimension, "int">>,
     <<s_init_scale, "float">>,
     <<s_max_norm, "Optional[float]">>,
     <<s_global_emb, "bool">>,
     <<s_comparator, "str">>,
     <<s_bias, "bool">>,
     <<s_loss_fn, "str">>,
     <<s_margin, "float">>,
     <<s_entity_path, "str">>,
     <<s_edge_paths, "List[str]">>,
     <<s_checkpoint_path, "str">>,
     <<s_init_path, "Optional[str]">>,
     <<s_checkpoint_preservation_interval, "Optional[int]">>,
     <<s_num_epochs, "int">>,
     <<s_num_edge_chunks, "Optional[int]">>,
     <<s_max_edges_per_chunk, "int">>,
     <<s_bucket_order, "BucketOrder">>,
     <<s_workers, "Optional[int]">>,
     <<s_batch_size, "int">>,
     <<s_num_batch_negs, "int">>,
     <<s_num_uniform_negs, "int">>,
     <<s_disable_lhs_negs, "bool">>,
     <<s_disable_rhs_negs, "bool">>,
     <<s_lr, "float">>,
     <<s_relation_lr, "Optional[float]">>,
     <<s_eval_fraction, "float">>,
     <<s_eval_num_batch_negs, "int">>,
     <<s_eval_num_uniform_negs, "int">>,
     <<s_background_io, "bool">>,
     <<s_verbose, "int">>,
     <<s_hogwild_delay, "float">>,
     <<s_dynamic_relations, "bool">>,
     <<s_num_machines, "int">>,
     <<s_num_partition_servers, "int">>,
     <<s_distributed_init_method, "Optional[str]">>,
     <<s_distributed_tree_init_order, "bool">>,
     <<s_num_gpus, "int">>,
     <<s_num_groups_for_partition_server, "int">>,
     <<s_half_precision, "bool">>}


\* Strings of the inputs: entity names, paths, value texts.
s_user == <<"u", "s", "e", "r">>
s_item == <<"i", "t", "e", "m">>
s_follows == <<"f", "o", "l", "l", "o", "w", "s">>
s_bogus == <<"b", "o", "g", "u", "s">>
s_x == <<"x">>
s_0 == <<"0">>
s_1 == <<"1">>
s_a_eq_b == <<"a", "=", "b">>
s_e == <<"/", "e">>
s_p == <<"/", "p">>
s_c == <<"/", "c">>
s_400 == <<"4", "0", "0">>
s_7 == <<"7">>
s_4x == <<"4", "x">>
s_abc_list == <<"/", "a", ",", "/", "b", ",", "/", "c">>
s_x_eq_y == <<"/", "x", "=", "y">>
s_2_5 == <<"2", ".", "5">>
s_true == <<"t", "r", "u", "e">>
s_minus_3 == <<"-", "3">>
s_a == <<"/", "a">>
s_b == <<"/", "b">>

(***************************************************************************)
(* The types of the schemas, and the tests override_config_dict makes on   *)
(* the type a path resolves to.                                            *)
(***************************************************************************)

TypeError == "<TypeError>"

\* has_origin(param_type, list), line 439.
HasOriginList(T) == T \in {"List[str]", "List[RelationSchema]"}

HasOriginDict(T) == T \in {"Dict[str, EntitySchema]"}

\* The element type of a list type, the value type of a dict type.
ElemType(T) ==
    CASE T = "List[str]" -> "str"
      [] T = "List[RelationSchema]" -> "RelationSchema"
      [] T = "Dict[str, EntitySchema]" -> "EntitySchema"

IsSchema(T) == T \in {"ConfigSchema", "EntitySchema", "RelationSchema"}

FieldsOf(T) ==
    CASE T = "ConfigSchema" -> ConfigSchemaFields
      [] T = "EntitySchema" -> EntitySchemaFields
      [] T = "RelationSchema" -> RelationSchemaFields

\* isinstance(param_type, type), line 442: the classes among the types (an
\* Optional[...] or List[...] annotation is no class).
IsClass(T) ==
    T \in {"int", "float", "bool", "str", "BucketOrder"} \/ IsSchema(T)

\* issubclass(param_type, (int, float)), line 443: bool is a subclass of int.
SubclassOfIntOrFloat(T) == T \in {"int", "float", "bool"}

\* issubclass(param_type, bool), line 444.
SubclassOfBool(T) == T = "bool"

\* Lines 442-444 with the bool test left out.
IsNumberTypeWithBool(T) == IsClass(T) /\ SubclassOfIntOrFloat(T)

\* Lines 442-444: whether the text is converted to a number.
IsNumberType(T) ==
    IsClass(T) /\ SubclassOfIntOrFloat(T) /\ ~SubclassOfBool(T)

\* extract_nested_type(type, path): the type at a dotted path.  A field
\* name steps into a schema, any one segment steps into a list or a dict;
\* a segment that names no field, or a step into a scalar, fails.
RECURSIVE ExtractNestedType(_, _)
ExtractNestedType(T, path) ==
    IF path = <<>> THEN T
    ELSE IF HasOriginList(T) \/ HasOriginDict(T)
    THEN ExtractNestedType(ElemType(T), Tail(path))
    ELSE IF IsSchema(T) /\ \E f \in FieldsOf(T) : f[1] = Head(path)
    THEN ExtractNestedType(
             (CHOOSE f \in FieldsOf(T) : f[1] = Head(path))[2], Tail(path))
    ELSE TypeError

\* The index a path segment names in a list of n elements, -1 when it names
\* none.
ListIndex(seg, n) ==
    LET r == ParseInt(seg)
    IN  IF r.ok /\ r.val.v >= 0 /\ r.val.v < n THEN r.val.v ELSE -1

\* inject_nested_value(data, path, value), in place: [ok, data], data being
\* the structure as the call leaves it.  An intermediate segment absent from
\* a mapping gets an empty mapping; an element of a list must exist.
RECURSIVE InjectNestedValue(_, _, _)
InjectNestedValue(data, path, value) ==
    LET seg == Head(path)
        rest == Tail(path)
    IN  IF path = <<>> THEN [ok |-> FALSE, data |-> data]
        ELSE IF data.t = "dict"
        THEN IF rest = <<>>
             THEN [ok |-> TRUE, data |-> PyDict(DictSet(data.v, seg, value))]
             ELSE LET child == IF seg \in DOMAIN data.v THEN data.v[seg]
                               ELSE EmptyDict
                      r == InjectNestedValue(child, rest, value)
                  IN  [ok |-> r.ok,
                       data |-> PyDict(DictSet(data.v, seg, r.data))]
        ELSE IF data.t = "list"
        THEN LET i == ListIndex(seg, Len(data.v))
             IN  IF i < 0 THEN [ok |-> FALSE, data |-> data]
                 ELSE IF rest = <<>>
                 THEN [ok |-> TRUE,
                       data |-> PyList([data.v EXCEPT ![i + 1] = value])]
                 ELSE LET r == InjectNestedValue(data.v[i + 1], rest, value)
                      IN  [ok |-> r.ok,
                           data |-> PyList([data.v EXCEPT ![i + 1] = r.data])]
        ELSE [ok |-> FALSE, data |-> data]

(***************************************************************************)
(* override_config_dict.                                                   *)
(***************************************************************************)

\* What iterating a Python value yields: the elements of a list, the
\* characters of a string (each a string of length one).
Iterate(x) ==
    IF x.t = "str" THEN [i \in 1..Len(x.v) |-> PyStr(<<x.v[i]>>)] ELSE x.v

RECURSIVE ChainRev(_)
ChainRev(xs) ==
    IF xs = <<>> THEN <<>> ELSE ChainRev(Tail(xs)) \o Iterate(Head(xs))

\* chain.from_iterable(xs), lines 430 and 522: the elements of the elements
\* of xs, in order.
RECURSIVE ChainFromIterable(_)
ChainFromIterable(xs) ==
    IF xs = <<>> THEN <<>> ELSE Iterate(Head(xs)) \o ChainFromIterable(Tail(xs))

\* The value left as the text whatever the type.
CoerceNone(T, text) == [ok |-> TRUE, val |-> PyStr(text)]

\* Lines 439-445: the value to inject for a text, by the type of the path.
\* [ok, val]; not ok when int() or float() raises ValueError.
Coerce(T, text) ==
    LET parts == Split(text, ",")
        value == IF HasOriginList(T)
                 THEN PyList([i \in 1..Len(parts) |-> PyStr(parts[i])])
                 ELSE PyStr(text)
    IN  IF IsNumberType(T)
        THEN IF T = "int" THEN ParseInt(value.v) ELSE ParseFloat(value.v)
        ELSE [ok |-> TRUE, val |-> value]

\* Line 433 with partition in place of rpartition.
SplitOverrideFirst(o) == Partition(o, "=")

\* Line 433: key, _, value = override.rpartition("=").
SplitOverride(o) == RPartition(o, "=")

\* Lines 433-446, the body of the try: [ok, cfg, cause], cfg being the
\* configuration as the body leaves it and cause the exception it raised.
OverrideOne(cfg, o) ==
    LET parts == SplitOverride(o.v)
        key == parts[1]
        text == parts[3]
        path == Split(key, ".")
        T == ExtractNestedType("ConfigSchema", path)
        c == Coerce(T, text)
        inj == InjectNestedValue(cfg, path, c.val)
    IN  IF T = TypeError
        THEN [ok |-> FALSE, cfg |-> cfg, cause |-> "extract_nested_type"]
        ELSE IF ~c.ok
        THEN [ok |-> FALSE, cfg |-> cfg, cause |-> "ValueError"]
        ELSE IF ~inj.ok
        THEN [ok |-> FALSE, cfg |-> inj.data, cause |-> "inject_nested_value"]
        ELSE [ok |-> TRUE, cfg |-> inj.data, cause |-> "none"]

s_cant_parse == <<"C", "a", "n", "'", "t", " ", "p", "a", "r", "s", "e", " ",
    "o", "v", "e", "r", "r", "i", "d", "e", ":", " ">>

\* "%s" % x for a string x.
Format(x) == x.v

NoError == [type |-> "none", msg |-> <<>>, cause |-> "none"]

\* Line 448 with the key in place of the override.
CantParseKey(o, cause) ==
    [type |-> "RuntimeError",
     msg |-> s_cant_parse \o SplitOverride(o.v)[1], cause |-> cause]

\* Line 448: RuntimeError("Can't parse override: %s" % override) from err.
CantParse(o, cause) ==
    [type |-> "RuntimeError", msg |-> s_cant_parse \o Format(o),
     cause |-> cause]

OvInit ==
    /\ config_dict = None
    /\ overrides = None
    /\ ov_iter = <<>>
    /\ override = None
    /\ ov_pc = "idle"
    /\ ov_err = NoError
    /\ raw_config = None
    /\ ov_given = None
    /\ ov_ref = "none"
    /\ ov_ret = "none"

\* A parameter that names a copy of the object passed.
CopiedObject == "copy"

\* Line 427: a call binds the parameter config_dict to the object that the
\* caller passes.
PassedObject == "caller"

\* The caller's object after the object that config_dict names has become
\* after: the same when config_dict names the caller's object.
CallerSees(after) == IF ov_ref = "caller" THEN after ELSE raw_config

\* Lines 427-430: the call; None stands for no overrides.
OvEnter(raw, args) ==
    /\ raw_config' = raw
    /\ ov_given' = raw
    /\ ov_ref' = PassedObject
    /\ ov_ret' = "none"
    /\ config_dict' = raw
    /\ overrides' = args
    /\ ov_iter' = ChainFromIterable(IF args = None THEN <<>> ELSE Iterate(args))
    /\ override' = None
    /\ ov_pc' = "loop"
    /\ ov_err' = NoError

\* One turn of the loop that goes on to the next override whatever happened.
OvStepSwallow ==
    /\ ov_pc = "loop"
    /\ ov_iter # <<>>
    /\ LET r == OverrideOne(config_dict, Head(ov_iter))
       IN  /\ override' = Head(ov_iter)
           /\ ov_iter' = Tail(ov_iter)
           /\ config_dict' = r.cfg
           /\ raw_config' = CallerSees(r.cfg)
           /\ ov_pc' = "loop"
           /\ ov_err' = ov_err
    /\ UNCHANGED <<overrides, ov_given, ov_ref, ov_ret>>

\* Lines 431-448: one turn of the loop.
OvStep ==
    /\ ov_pc = "loop"
    /\ ov_iter # <<>>
    /\ LET r == OverrideOne(config_dict, Head(ov_iter))
       IN  /\ override' = Head(ov_iter)
           /\ ov_iter' = Tail(ov_iter)
           /\ config_dict' = r.cfg
           /\ raw_config' = CallerSees(r.cfg)
           /\ ov_pc' = IF r.ok THEN "loop" ELSE "raised"
           /\ ov_err' = IF r.ok THEN ov_err
                        ELSE CantParse(Head(ov_iter), r.cause)
    /\ UNCHANGED <<overrides, ov_given, ov_ref, ov_ret>>

\* Line 449: return config_dict.
OvReturn ==
    /\ ov_pc = "loop"
    /\ ov_iter = <<>>
    /\ ov_pc' = "returned"
    /\ ov_ret' = ov_ref
    /\ UNCHANGED <<config_dict, overrides, ov_iter, override, ov_err,
                   raw_config, ov_given, ov_ref>>

(***************************************************************************)
(* The inputs of override_config_dict.                                     *)
(***************************************************************************)

RECURSIVE JoinWith(_, _)
\* c.join(parts).
JoinWith(parts, c) ==
    IF Len(parts) = 0 THEN <<>>
    ELSE IF Len(parts) = 1 THEN parts[1]
    ELSE parts[1] \o <<c>> \o JoinWith(Tail(parts), c)

Dotted(segs) == JoinWith(segs, ".")

\* The raw configuration get_torchbiggraph_config() of a config file gives:
\* a complete one, and an empty one.
BaseRaw ==
    PyDict(s_entities :> PyDict(s_user :> PyDict(s_num_partitions :> PyInt(1)))
         @@ s_relations :> PyList(<<PyDict(s_name :> PyStr(s_follows)
                                       @@ s_lhs :> PyStr(s_user)
                                       @@ s_rhs :> PyStr(s_user))>>)
         @@ s_dimension :> PyInt(100)
         @@ s_entity_path :> PyStr(s_e)
         @@ s_edge_paths :> PyList(<<PyStr(s_p)>>)
         @@ s_checkpoint_path :> PyStr(s_c))

RawConfigs == {BaseRaw, EmptyDict}

\* The dotted paths of the overrides: fields of every kind of type, paths
\* into the list and the dict, and paths that do not resolve.
KeyTexts ==
    {s_dimension, s_edge_paths, s_checkpoint_path, s_bias, s_init_scale,
     s_bucket_order, s_workers, s_relations, s_bogus, <<>>,
     Dotted(<<s_relations, s_0, s_weight>>),
     Dotted(<<s_relations, s_1, s_weight>>),
     Dotted(<<s_entities, s_user, s_num_partitions>>),
     Dotted(<<s_entities, s_a_eq_b, s_num_partitions>>),
     Dotted(<<s_dimension, s_x>>)}

\* The value texts of the overrides.
ValueTexts ==
    {s_400, s_4x, <<>>, s_abc_list, s_x_eq_y, s_2_5, s_true, s_minus_3}

Override(k, text) == k \o <<"=">> \o text

\* Every override string of one path and one value text, and every path
\* alone (an override without "=").
OverrideStrings ==
    {Override(k, text) : k \in KeyTexts, text \in ValueTexts} \cup KeyTexts

\* The override strings of the calls that give several overrides.
SomeOverrideStrings ==
    {Override(s_dimension, s_400),
     Override(s_dimension, s_7),
     Override(s_dimension, s_4x),
     Override(s_edge_paths, s_abc_list),
     Override(s_relations, s_x),
     Override(Dotted(<<s_relations, s_0, s_weight>>), s_2_5),
     Override(Dotted(<<s_relations, s_1, s_weight>>), s_2_5),
     Override(Dotted(<<s_entities, s_user, s_num_partitions>>), s_7),
     Override(s_checkpoint_path, s_x_eq_y)}

SeqsUpTo(S, n) == UNION {[1..k -> S] : k \in 0..n}

RECURSIVE SumSeq(_)
SumSeq(s) == IF s = <<>> THEN 0 ELSE Head(s) + SumSeq(Tail(s))

\* The list of lists whose i-th list holds the next sizes[i] elements of flat.
Nest(flat, sizes) ==
    [i \in 1..Len(sizes) |->
        PyList(SubSeq(flat, SumSeq(SubSeq(sizes, 1, i - 1)) + 1,
                    SumSeq(SubSeq(sizes, 1, i))))]

\* Optional[List[List[str]]]: None, the lists of at most MaxLists lists that
\* hold at most MaxOverrides of the strings of S between them.
ListsOfLists(S) ==
    {PyList(Nest(p[1], p[2])) : p \in
        {q \in {<<f, z>> : f \in {[i \in DOMAIN g |-> PyStr(g[i])] :
                                    g \in SeqsUpTo(S, MaxOverrides)},
                           z \in SeqsUpTo(0..MaxOverrides, MaxLists)} :
            SumSeq(q[2]) = Len(q[1])}}

OverrideArgs ==
    {None} \cup ListsOfLists(SomeOverrideStrings)
           \cup {PyList(<<PyList(<<PyStr(o)>>)>>) : o \in OverrideStrings}

\* A caller calls override_config_dict(config_dict, overrides).
OvCall ==
    /\ ov_pc = "idle"
    /\ \E raw \in RawConfigs, args \in OverrideArgs : OvEnter(raw, args)

OvNext ==
    \/ OvCall /\ UNCHANGED other_than_ov
    \/ OvStep /\ UNCHANGED other_than_ov
    \/ OvReturn /\ UNCHANGED other_than_ov

(***************************************************************************)
(* ConfigSchema: the construction of a configuration object and its        *)
(* additional global validation, __attrs_post_init__.  An object of a      *)
(* schema class is the mapping of its attributes that were given; an       *)
(* attribute that was not given has the default of its field.              *)
(***************************************************************************)

PyBool(b) == [t |-> "bool", v |-> b]

DigitChars == <<"0", "1", "2", "3", "4", "5", "6", "7", "8", "9">>

\* "%d" % n for n >= 0.
RECURSIVE Decimal(_)
Decimal(n) ==
    IF n < 10 THEN <<DigitChars[n + 1]>>
    ELSE Decimal(n \div 10) \o <<DigitChars[(n % 10) + 1]>>

s_random == <<"r", "a", "n", "d", "o", "m">>
s_affinity == <<"a", "f", "f", "i", "n", "i", "t", "y">>
s_inside_out == <<"i", "n", "s", "i", "d", "e", "_", "o", "u", "t">>
s_outside_in == <<"o", "u", "t", "s", "i", "d", "e", "_", "i", "n">>
s_cos == <<"c", "o", "s">>
s_ranking == <<"r", "a", "n", "k", "i", "n", "g">>
s_logistic == <<"l", "o", "g", "i", "s", "t", "i", "c">>
s_likes == <<"l", "i", "k", "e", "s">>
\* Lines 402-403 and 406-407: the pieces of the two messages.
s_msg_relation_type == <<"R", "e", "l", "a", "t", "i", "o", "n", " ", "t",
    "y", "p", "e", " ">>
s_msg_open == <<" ", "(", "#">>
s_msg_unknown_lhs == <<")", " ", "h", "a", "s", " ", "a", "n", " ", "u", "n",
    "k", "n", "o", "w", "n", " ", "l", "e", "f", "t", "-", "h", "a", "n",
    "d", " ", "s", "i", "d", "e", " ", "e", "n", "t", "i", "t", "y", " ",
    "t", "y", "p", "e", " ">>
s_msg_unknown_rhs == <<")", " ", "h", "a", "s", " ", "a", "n", " ", "u", "n",
    "k", "n", "o", "w", "n", " ", "r", "i", "g", "h", "t", "-", "h", "a",
    "n", "d", " ", "s", "i", "d", "e", " ", "e", "n", "t", "i", "t", "y",
    " ", "t", "y", "p", "e", " ">>
\* Lines 411-412.
s_msg_dynamic == <<"W", "h", "e", "n", " ", "d", "y", "n", "a", "m", "i",
    "c", " ", "r", "e", "l", "a", "t", "i", "o", "n", "s", " ", "a", "r",
    "e", " ", "i", "n", " ", "u", "s", "e", " ", "o", "n", "l", "y", " ",
    "o", "n", "e", " ", "r", "e", "l", "a", "t", "i", "o", "n", " ", "t",
    "y", "p", "e", " ", "m", "u", "s", "t", " ", "b", "e", " ", "d", "e",
    "f", "i", "n", "e", "d", ".">>
\* Line 416.
s_msg_logistic_cos == <<"Y", "o", "u", " ", "h", "a", "v", "e", " ", "l",
    "o", "g", "i", "s", "t", "i", "c", " ", "l", "o", "s", "s", " ", "a",
    "n", "d", " ", "c", "o", "s", "i", "n", "e", " ", "d", "i", "s", "t",
    "a", "n", "c", "e", ".", " ", "A", "r", "e", " ", "y", "o", "u", " ",
    "s", "u", "r", "e", "?">>
\* Line 419.
s_msg_both_sides == <<"C", "a", "n", "n", "o", "t", " ", "d", "i", "s", "a",
    "b", "l", "e", " ", "n", "e", "g", "a", "t", "i", "v", "e", " ", "s",
    "a", "m", "p", "l", "i", "n", "g", " ", "o", "n", " ", "b", "o", "t",
    "h", " ", "s", "i", "d", "e", "s", ".">>
\* Line 422 (without the backquotes around the name, which a string of
\* this notation cannot hold).
s_msg_background_io == <<"b", "a", "c", "k", "g", "r", "o", "u", "n",
    "d", "_", "i", "o", " ", "i", "s", " ", "d", "e", "p", "r", "e",
    "c", "a", "t", "e", "d", " ", "a", "n", "d", " ", "w", "i", "l", "l",
    " ", "h", "a", "v", "e", " ", "n", "o", " ", "e", "f", "f", "e", "c",
    "t", ".">>
\* Line 456.
s_msg_aborting == <<"E", "r", "r", "o", "r", " ", "i", "n", " ", "t", "h",
    "e", " ", "c", "o", "n", "f", "i", "g", "u", "r", "a", "t", "i", "o",
    "n", " ", "f", "i", "l", "e", ",", " ", "a", "b", "o", "r", "t", "i",
    "n", "g", ".">>

\* The values of BucketOrder, lines 40-52.
BucketOrderValues == {s_random, s_affinity, s_inside_out, s_outside_in}

\* The default= of the fields that __attrs_post_init__ and main read.
FieldDefaults ==
    s_comparator :> PyStr(s_cos)
    @@ s_loss_fn :> PyStr(s_ranking)
    @@ s_disable_lhs_negs :> PyBool(FALSE)
    @@ s_disable_rhs_negs :> PyBool(FALSE)
    @@ s_background_io :> PyBool(FALSE)
    @@ s_verbose :> PyInt(0)
    @@ s_dynamic_relations :> PyBool(FALSE)

\* self.<field>.
Attr(self, field) ==
    IF field \in DOMAIN self.v THEN self.v[field] ELSE FieldDefaults[field]

\* The truth of a value in an if.
Truthy(x) == x.t = "bool" /\ x.v

NoValueError == [type |-> "none", msg |-> <<>>]

ValueError(msg) == [type |-> "ValueError", msg |-> msg]

\* Lines 401-404 alone: the test of the left-hand side only.
RelationCheckLhsOnly(self, rel_id) ==
    LET rel_config == Attr(self, s_relations).v[rel_id + 1]
    IN  IF rel_config.v[s_lhs].v \notin DOMAIN Attr(self, s_entities).v
        THEN ValueError(s_msg_relation_type \o rel_config.v[s_name].v
                        \o s_msg_open \o Decimal(rel_id)
                        \o s_msg_unknown_lhs \o rel_config.v[s_lhs].v)
        ELSE NoValueError

\* Lines 401-408, the body of the loop for the relation rel_id (counted from
\* 0, as enumerate does): the ValueError it raises, NoValueError when none.
RelationCheck(self, rel_id) ==
    LET rel_config == Attr(self, s_relations).v[rel_id + 1]
    IN  IF rel_config.v[s_lhs].v \notin DOMAIN Attr(self, s_entities).v
        THEN ValueError(s_msg_relation_type \o rel_config.v[s_name].v
                        \o s_msg_open \o Decimal(rel_id)
                        \o s_msg_unknown_lhs \o rel_config.v[s_lhs].v)
        ELSE IF rel_config.v[s_rhs].v \notin DOMAIN Attr(self, s_entities).v
        THEN ValueError(s_msg_relation_type \o rel_config.v[s_name].v
                        \o s_msg_open \o Decimal(rel_id)
                        \o s_msg_unknown_rhs \o rel_config.v[s_rhs].v)
        ELSE NoValueError

\* Lines 400-408: the loop over enumerate(self.relations) from rel_id on.
RECURSIVE RelationsLoop(_, _)
RelationsLoop(self, rel_id) ==
    IF rel_id >= Len(Attr(self, s_relations).v) THEN NoValueError
    ELSE IF RelationCheck(self, rel_id) # NoValueError
    THEN RelationCheck(self, rel_id)
    ELSE RelationsLoop(self, rel_id + 1)

LogRecord(level, msg) == [level |-> level, msg |-> msg]

\* Lines 399-422: [err, log], err being the ValueError raised (NoValueError
\* when the method returns) and log the records logged on the way.
PostInit(self) ==
    LET rels == RelationsLoop(self, 0)
        w1 == IF /\ Attr(self, s_loss_fn) = PyStr(s_logistic)
                 /\ Attr(self, s_comparator) = PyStr(s_cos)
              THEN <<LogRecord("WARNING", s_msg_logistic_cos)>>
              ELSE <<>>
        w2 == IF Truthy(Attr(self, s_background_io))
              THEN <<LogRecord("WARNING", s_msg_background_io)>>
              ELSE <<>>
    IN  IF rels # NoValueError
        THEN [err |-> rels, log |-> <<>>]
        ELSE IF /\ Truthy(Attr(self, s_dynamic_relations))
                /\ Len(Attr(self, s_relations).v) # 1
        THEN [err |-> ValueError(s_msg_dynamic), log |-> <<>>]
        ELSE IF /\ Truthy(Attr(self, s_disable_lhs_negs))
                /\ Truthy(Attr(self, s_disable_rhs_negs))
        THEN [err |-> ValueError(s_msg_both_sides), log |-> w1]
        ELSE [err |-> NoValueError, log |-> w1 \o w2]

NoBuild ==
    [status |-> "none", input |-> None, config |-> None,
     err |-> NoValueError, log |-> <<>>]

\* ConfigSchema(**kw): the generated __init__ sets the attributes and calls
\* __attrs_post_init__; the object exists for the caller only when that
\* returns.
NewConfigSchema(kw) ==
    LET r == PostInit(kw)
    IN  [status |-> IF r.err = NoValueError THEN "ok" ELSE "raised",
         input |-> kw,
         config |-> IF r.err = NoValueError THEN kw ELSE None,
         err |-> r.err,
         log |-> r.log]

(***************************************************************************)
(* Schema.from_dict: the test of a raw configuration  against the fields,  *)
(* types and validators that the schema classes declare, followed by the   *)
(* construction.                                                           *)
(***************************************************************************)

\* The fields of EntitySchema declared without a default.
EntitySchemaRequired ==
    {s_num_partitions}

\* The validator= of the fields of EntitySchema.
EntitySchemaValidators ==
    {<<s_num_partitions, "positive">>,
     <<s_dimension, "optional(positive)">>}

\* The fields of RelationSchema declared without a default.
RelationSchemaRequired ==
    {s_name, s_lhs, s_rhs}

\* The validator= of the fields of RelationSchema.
RelationSchemaValidators ==
    {<<s_name, "non_empty">>, <<s_lhs, "non_empty">>,
     <<s_rhs, "non_empty">>, <<s_weight, "positive">>}

\* The fields of ConfigSchema declared without a default.
ConfigSchemaRequired ==
    {s_entities, s_relations, s_dimension, s_entity_path, s_edge_paths, s_checkpoint_path}

\* The validator= of the fields of ConfigSchema.
ConfigSchemaValidators ==
    {<<s_entities, "non_empty">>, <<s_relations, "non_empty">>,
     <<s_dimension, "positive">>, <<s_init_scale, "positive">>,
     <<s_max_norm, "optional(positive)">>, <<s_num_epochs, "non_negative">>,
     <<s_num_edge_chunks, "optional(positive)">>,
     <<s_max_edges_per_chunk, "positive">>,
     <<s_workers, "optional(positive)">>, <<s_batch_size, "positive">>,
     <<s_num_batch_negs, "non_negative">>,
     <<s_num_uniform_negs, "non_negative">>, <<s_lr, "non_negative">>,
     <<s_relation_lr, "optional(non_negative)">>,
     <<s_eval_fraction, "non_negative">>,
     <<s_eval_num_batch_negs, "non_negative">>,
     <<s_eval_num_uniform_negs, "non_negative">>,
     <<s_verbose, "non_negative">>, <<s_hogwild_delay, "non_negative">>,
     <<s_num_machines, "positive">>}

RequiredOf(T) ==
    CASE T = "ConfigSchema" -> ConfigSchemaRequired
      [] T = "EntitySchema" -> EntitySchemaRequired
      [] T = "RelationSchema" -> RelationSchemaRequired

ValidatorsOf(T) ==
    CASE T = "ConfigSchema" -> ConfigSchemaValidators
      [] T = "EntitySchema" -> EntitySchemaValidators
      [] T = "RelationSchema" -> RelationSchemaValidators

IsOptional(T) == T \in {"Optional[int]", "Optional[float]", "Optional[str]"}

OptionalOf(T) ==
    CASE T = "Optional[int]" -> "int"
      [] T = "Optional[float]" -> "float"
      [] T = "Optional[str]" -> "str"

\* x > 0 and x >= 0 for a number.
IsPositive(x) ==
    \/ x.t = "int" /\ x.v > 0
    \/ x.t = "float" /\ (x.v[1] = "inf" \/ (x.v[1] = "finite" /\ x.v[2] > 0))

IsNonNegative(x) ==
    \/ x.t = "int" /\ x.v >= 0
    \/ x.t = "float" /\ (x.v[1] = "inf" \/ (x.v[1] = "finite" /\ x.v[2] >= 0))

IsNonEmpty(x) ==
    IF x.t = "dict" THEN DOMAIN x.v # {} ELSE Len(x.v) > 0

\* Whether a value passes a validator.
ValidatorOk(validator, x) ==
    CASE validator = "positive" -> IsPositive(x)
      [] validator = "non_negative" -> IsNonNegative(x)
      [] validator = "non_empty" -> IsNonEmpty(x)
      [] validator = "optional(positive)" -> x = None \/ IsPositive(x)
      [] validator = "optional(non_negative)" -> x = None \/ IsNonNegative(x)

\* Whether a raw value has the shape of a type: for a schema, a mapping
\* that holds every required field and no key that is not a field, each
\* value of the type of its field and passing the validator of its field.
RECURSIVE HasType(_, _)
HasType(T, x) ==
    CASE T = "int" -> x.t = "int"
      [] T = "float" -> x.t \in {"float", "int"}
      [] T = "bool" -> x.t = "bool"
      [] T = "str" -> x.t = "str"
      [] T = "BucketOrder" -> x.t = "str" /\ x.v \in BucketOrderValues
      [] IsOptional(T) -> x = None \/ HasType(OptionalOf(T), x)
      [] HasOriginList(T) ->
            x.t = "list" /\ \A i \in DOMAIN x.v : HasType(ElemType(T), x.v[i])
      [] HasOriginDict(T) ->
            x.t = "dict" /\ \A k \in DOMAIN x.v : HasType(ElemType(T), x.v[k])
      [] IsSchema(T) ->
            /\ x.t = "dict"
            /\ RequiredOf(T) \subseteq DOMAIN x.v
            /\ \A k \in DOMAIN x.v :
                  /\ \E f \in FieldsOf(T) : f[1] = k
                  /\ HasType((CHOOSE f \in FieldsOf(T) : f[1] = k)[2], x.v[k])
                  /\ \A w \in ValidatorsOf(T) :
                        w[1] = k => ValidatorOk(w[2], x.v[k])

DeepTypeError(msg) == [type |-> "DeepTypeError", msg |-> msg]

s_msg_shape == <<"i", "n", "v", "a", "l", "i", "d">>

\* ConfigSchema.from_dict(raw): [built, err], built being the construction
\* it made (NoBuild when the shape is wrong) and err the DeepTypeError it
\* raised (NoValueError when it returns built.config).
FromDict(raw) ==
    IF ~HasType("ConfigSchema", raw)
    THEN [built |-> NoBuild, err |-> DeepTypeError(s_msg_shape)]
    ELSE LET b == NewConfigSchema(raw)
         IN  [built |-> b,
              err |-> IF b.status = "raised" THEN DeepTypeError(b.err.msg)
                      ELSE NoValueError]

(***************************************************************************)
(* parse_config.  parse:                                                   *)
(*   pc      "idle", "return" (line 454 assigned config), "except" (line   *)
(*           455 caught the DeepTypeError), "critical1", "critical2" (the  *)
(*           two records are logged), and the ends "returned", "exited"    *)
(*           (SystemExit raised) and "propagated" (another error left the  *)
(*           function);                                                    *)
(*   input   the argument config_dict;                                     *)
(*   fault   the error other than DeepTypeError that from_dict raised;     *)
(*   err     the exception in hand;  config  the local of line 454;        *)
(*   result  the value returned;  code  the status of the SystemExit.      *)
(***************************************************************************)

ParseIdle ==
    [pc |-> "idle", input |-> None, fault |-> "none", err |-> NoValueError,
     config |-> None, result |-> None, code |-> 0]

ValInit ==
    /\ built = NoBuild
    /\ log = <<>>
    /\ parse = ParseIdle

\* ConfigSchema(**kw) called directly; the warnings go to the log.
ConstructWith(kw) ==
    /\ built.status = "none"
    /\ parse.pc = "idle"
    /\ built' = NewConfigSchema(kw)
    /\ log' = log \o NewConfigSchema(kw).log
    /\ UNCHANGED parse

\* The errors from_dict may raise that are no DeepTypeError ("none": it
\* raises no such error).
Faults == {"none", "KeyboardInterrupt"}

\* Lines 453-455: config = ConfigSchema.from_dict(config_dict) inside the
\* try, whose except clause takes DeepTypeError only.
ParseTry(raw, fault) ==
    /\ parse.pc = "idle"
    /\ built.status = "none"
    /\ IF fault # "none"
       THEN /\ parse' = [ParseIdle EXCEPT !.pc = "propagated", !.input = raw,
                             !.fault = fault,
                             !.err = [type |-> fault, msg |-> <<>>]]
            /\ UNCHANGED <<built, log>>
       ELSE LET r == FromDict(raw)
            IN  /\ built' = r.built
                /\ log' = log \o r.built.log
                /\ parse' = IF r.err = NoValueError
                            THEN [ParseIdle EXCEPT !.pc = "return",
                                      !.input = raw,
                                      !.config = r.built.config]
                            ELSE [ParseIdle EXCEPT !.pc = "except",
                                      !.input = raw, !.err = r.err]

\* Line 456: logger.critical("Error in the configuration file, aborting.").
ParseCritical1 ==
    /\ parse.pc = "except"
    /\ log' = Append(log, LogRecord("CRITICAL", s_msg_aborting))
    /\ parse' = [parse EXCEPT !.pc = "critical1"]
    /\ UNCHANGED built

\* Line 457: logger.critical(f"{err}").
ParseCritical2 ==
    /\ parse.pc = "critical1"
    /\ log' = Append(log, LogRecord("CRITICAL", parse.err.msg))
    /\ parse' = [parse EXCEPT !.pc = "critical2"]
    /\ UNCHANGED built

\* Line 458 raising SystemExit(0).
ParseExitClean ==
    /\ parse.pc = "critical2"
    /\ parse' = [parse EXCEPT !.pc = "exited", !.code = 0,
                     !.err = [type |-> "SystemExit", msg |-> <<>>]]
    /\ UNCHANGED <<built, log>>

\* Line 458: raise SystemExit(1).
ParseExit ==
    /\ parse.pc = "critical2"
    /\ parse' = [parse EXCEPT !.pc = "exited", !.code = 1,
                     !.err = [type |-> "SystemExit", msg |-> <<>>]]
    /\ UNCHANGED <<built, log>>

\* Line 459: return config.
ParseReturn ==
    /\ parse.pc = "return"
    /\ parse' = [parse EXCEPT !.pc = "returned", !.result = parse.config]
    /\ UNCHANGED <<built, log>>

(***************************************************************************)
(* The raw configurations given to the construction and to parse_config.   *)
(***************************************************************************)

RelationNames == {s_follows, s_likes}

Relation(name, lhs, rhs) ==
    PyDict(s_name :> PyStr(name) @@ s_lhs :> PyStr(lhs) @@ s_rhs :> PyStr(rhs))

\* The two sides of a relation: user to user, and between user and item.
RelationSides == {<<s_user, s_user>>, <<s_user, s_item>>, <<s_item, s_user>>}

Relations ==
    {Relation(n, e[1], e[2]) : n \in RelationNames, e \in RelationSides}

\* The raw configuration with a field set when the flag says so.
With(raw, flag, field, x) ==
    IF flag THEN PyDict(DictSet(raw.v, field, x)) ELSE raw

\* BaseRaw with the entities ents, the relations rels and every field that
\* __attrs_post_init__ reads given or left to its default.
MakeRaw(ents, rels, dyn, lhs_negs, rhs_negs, logistic, bg) ==
    With(With(With(With(With(
        PyDict(DictSet(DictSet(BaseRaw.v,
            s_entities,
            PyDict([e \in ents |-> PyDict(s_num_partitions :> PyInt(1))])),
            s_relations, PyList(rels))),
        dyn, s_dynamic_relations, PyBool(TRUE)),
        lhs_negs, s_disable_lhs_negs, PyBool(TRUE)),
        rhs_negs, s_disable_rhs_negs, PyBool(TRUE)),
        logistic, s_loss_fn, PyStr(s_logistic)),
        bg, s_background_io, PyBool(TRUE))

\* Raw configurations of the right shape: one or both entity types, one to
\* MaxRelations relations between the two names, the flags in every
\* combination.
ShapedRaws ==
    {MakeRaw(ents, rels, f[1], f[2], f[3], f[4], f[5]) :
        ents \in {{s_user}, {s_user, s_item}},
        rels \in SeqsUpTo(Relations, MaxRelations) \ {<<>>},
        f \in BOOLEAN \X BOOLEAN \X BOOLEAN \X BOOLEAN \X BOOLEAN}

\* Raw configurations of a wrong shape: a required field missing, a value of
\* the wrong type, a validator failing, a value outside the enum, a key that
\* is no field.
MisshapedRaws ==
    {EmptyDict,
     PyDict(DictSet(BaseRaw.v, s_dimension, PyInt(0))),
     PyDict(DictSet(BaseRaw.v, s_dimension, PyStr(s_400))),
     PyDict(DictSet(BaseRaw.v, s_relations, PyList(<<>>))),
     PyDict(DictSet(BaseRaw.v, s_bucket_order, PyStr(s_x))),
     PyDict(DictSet(BaseRaw.v, s_dynamic_relations, PyStr(s_true))),
     PyDict(DictSet(BaseRaw.v, s_bogus, PyInt(1)))}

\* A caller constructs a ConfigSchema from keyword arguments of the right
\* shape.
Construct ==
    /\ built.status = "none"
    /\ parse.pc = "idle"
    /\ \E kw \in ShapedRaws : ConstructWith(kw)

\* A caller calls parse_config(config_dict).
ParseCall ==
    /\ parse.pc = "idle"
    /\ built.status = "none"
    /\ \E raw \in ShapedRaws \cup MisshapedRaws, fault \in Faults :
          ParseTry(raw, fault)

ValNext ==
    \/ Construct /\ UNCHANGED other_than_val
    \/ ParseCall /\ UNCHANGED other_than_val
    \/ ParseCritical1 /\ UNCHANGED other_than_val
    \/ ParseCritical2 /\ UNCHANGED other_than_val
    \/ ParseExit /\ UNCHANGED other_than_val
    \/ ParseReturn /\ UNCHANGED other_than_val

(***************************************************************************)
(* main, the command-line utility.  The loader of line 525 is loader 1.    *)
(*   main_pc  "start", "args" (lines 513-524 done), "load" (inside         *)
(*            load_config), "done" (the value is printed);                 *)
(*   opt      the parsed arguments: config (the raw configuration that     *)
(*            the file's get_torchbiggraph_config() returns), query and    *)
(*            param (None, or the list of the lists of the -p flags);      *)
(*   ov_arg   main's local overrides;  stdout  what was printed.           *)
(***************************************************************************)

NoOpt == [config |-> None, query |-> <<>>, param |-> None]

MainInit ==
    /\ main_pc = "start"
    /\ opt = NoOpt
    /\ ov_arg = None
    /\ stdout = <<>>

\* The iterator chain.from_iterable returns, by what is left in it.
Chain(xs) == [t |-> "chain", v |-> xs]

\* Lines 513-524: the arguments are parsed; overrides is opt.param
\* flattened, or None.
MainArgsWith(file, query, param) ==
    /\ main_pc = "start"
    /\ opt' = [config |-> file, query |-> query, param |-> param]
    /\ ov_arg' = IF param # None
               THEN Chain(ChainFromIterable(Iterate(param)))
               ELSE None
    /\ main_pc' = "args"
    /\ UNCHANGED stdout

\* Line 525, loader = ConfigFileLoader(): the statements of __init__.
MainLoader ==
    /\ main_pc = "args"
    /\ \/ InitMakeDir(1)
       \/ InitBindPath(1)
       \/ InitAppend(1)

\* Lines 526, 503 and 489-494: load_config calls load_raw_config, which
\* imports the copy of the file, calls get_torchbiggraph_config() and calls
\* override_config_dict(raw_config, overrides).
MainLoadRaw ==
    /\ main_pc = "args"
    /\ loader[1].pc = "idle"
    /\ loader[1].stage = 3
    /\ ov_pc = "idle"
    /\ OvEnter(opt.config, ov_arg)
    /\ main_pc' = "load"
    /\ UNCHANGED <<opt, ov_arg, stdout>>

\* Lines 495 and 503-504: load_raw_config returns what override_config_dict
\* returned and load_config calls parse_config on it.
MainParse ==
    /\ main_pc = "load"
    /\ ov_pc = "returned"
    /\ \E fault \in Faults : ParseTry(config_dict, fault)

\* str(x) of an int that is not negative, and of a str.
PyStrOf(x) == IF x.t = "int" THEN Decimal(x.v) ELSE x.v

\* Lines 526-529: load_config returns, the verbosity is set and
\* config[opt.query] is printed.
MainPrint ==
    /\ main_pc = "load"
    /\ parse.pc = "returned"
    /\ stdout' = Append(stdout, PyStrOf(Attr(parse.result, opt.query)))
    /\ main_pc' = "done"
    /\ UNCHANGED <<opt, ov_arg>>

\* main has returned or an exception has left it.
MainOver ==
    \/ main_pc = "done"
    \/ main_pc = "load" /\ ov_pc = "raised"
    \/ main_pc = "load" /\ parse.pc \in {"exited", "propagated"}

\* The frame of main goes and with it the last reference to the loader:
\* the statements of __del__.
MainRelease ==
    /\ MainOver
    /\ \/ DelByGc(1)
       \/ DelRemove(1)
       \/ DelCleanup(1)

\* The files named on the command line, by the raw configuration they give.
ConfigFiles == {BaseRaw, PyDict(DictSet(BaseRaw.v, s_dimension, PyInt(0)))}

\* The names asked for.
Queries == {s_dimension, s_checkpoint_path}

\* The strings given after -p.
ParamStrings ==
    {Override(s_dimension, s_400), Override(s_checkpoint_path, s_x), s_x, <<>>}

\* opt.param of action='append', nargs='*': None without -p, else one list
\* per -p with the strings that follow it.
ParamArgs == {None} \cup ListsOfLists(ParamStrings)

MainArgs ==
    /\ main_pc = "start"
    /\ \E file \in ConfigFiles, query \in Queries, param \in ParamArgs :
          MainArgsWith(file, query, param)

MainNext ==
    \/ MainArgs /\ UNCHANGED other_than_main
    \/ MainLoader /\ UNCHANGED other_than_loader
    \/ MainLoadRaw /\ UNCHANGED <<loader_vars, val_vars, load_vars>>
    \/ OvStep /\ UNCHANGED other_than_ov
    \/ OvReturn /\ UNCHANGED other_than_ov
    \/ MainParse /\ UNCHANGED other_than_val
    \/ ParseCritical1 /\ UNCHANGED other_than_val
    \/ ParseCritical2 /\ UNCHANGED other_than_val
    \/ ParseExit /\ UNCHANGED other_than_val
    \/ ParseReturn /\ UNCHANGED other_than_val
    \/ MainPrint /\ UNCHANGED other_than_main
    \/ MainRelease /\ UNCHANGED other_than_loader

(***************************************************************************)
(* ConfigFileLoader.load_raw_config.  load[l], for loader l:               *)
(*   pc      "idle" (no load running) or "copied" (line 490 copied the     *)
(*           file, the import of line 492 is to come);                     *)
(*   unit    the number of the unit of the running load (0: none);         *)
(*   loaded  the units the loader has imported, in order;                  *)
(*   exc     the exception the last load raised ("none").                  *)
(***************************************************************************)

Units == 1..MaxUnits

\* f"torchbiggraph_config_{uuid.uuid4().hex}": the names are numbered in
\* the order in which they are drawn, UnitName(k) is the k-th of them.
UnitName(k) == <<"torchbiggraph_config_", "uuid4", k>>

NoLoad == [pc |-> "idle", unit |-> 0, loaded |-> <<>>, exc |-> "none"]

LoadInit ==
    /\ files = {}
    /\ sys_modules = {}
    /\ load = [l \in Loaders |-> NoLoad]

\* The unit numbers that a load has drawn, whatever came of the load.
UsedUnits ==
    ({f[2] : f \in files} \cup {load[l].unit : l \in Loaders}) \ {0}

\* Every unit number: a name may be drawn again.
AnyUnits == Units

\* What uuid4 draws next: it draws at random from 2^122 values, a drawn
\* name is never drawn again, so the next name is the first unused one
\* (none is left when the model's bound is reached).
FreshUnits ==
    {k \in Units \ UsedUnits : \A j \in Units \ UsedUnits : k <= j}

\* The load of loader l ends with exception exc.
LoadRaises(l, exc) ==
    load' = [load EXCEPT ![l].pc = "idle", ![l].unit = 0, ![l].exc = exc]

\* Lines 489-490, in a loader whose __init__ returned and in which no
\* method runs: module_name = f"torchbiggraph_config_{uuid.uuid4().hex}"
\* and shutil.copyfile(path, <config_dir>/<module_name>.py), path naming a
\* file that can be read.  The copy raises FileNotFoundError when the
\* directory is gone.
LoadCopy(l) ==
    /\ loader[l].pc = "idle"
    /\ loader[l].stage = 3
    /\ load[l].pc = "idle"
    /\ FreshUnits # {}
    /\ IF TmpName(loader[l].dir) \notin disk
       THEN LoadRaises(l, "FileNotFoundError") /\ UNCHANGED files
       ELSE \E k \in FreshUnits :
               /\ files' = files \cup {<<loader[l].dir, k>>}
               /\ load' = [load EXCEPT ![l].pc = "copied", ![l].unit = k,
                                       ![l].exc = "none"]
    /\ UNCHANGED sys_modules

\* What the import system finds for a name that is not in sys.modules: a
\* file of that name in a directory that exists and is an entry of sys.path.
Findable(k) ==
    \E i \in 1..Len(sys_path) :
        /\ IsTmpName(sys_path[i])
        /\ sys_path[i] \in disk
        /\ <<sys_path[i][2], k>> \in files

\* Lines 491-495: importlib.invalidate_caches() and
\* module = importlib.import_module(module_name), then the entry point is
\* called, the overrides are applied and the raw configuration is returned
\* (or an error of these leaves the method).  runs says whether the code of
\* the file runs through (the import raises ImportError when not).
LoadImport(l, runs) ==
    /\ load[l].pc = "copied"
    /\ IF UnitName(load[l].unit) \in sys_modules
       THEN /\ load' = [load EXCEPT ![l].pc = "idle", ![l].unit = 0,
                            ![l].loaded = Append(@, load[l].unit)]
            /\ UNCHANGED sys_modules
       ELSE IF ~Findable(load[l].unit)
       THEN LoadRaises(l, "ModuleNotFoundError") /\ UNCHANGED sys_modules
       ELSE IF ~runs
       THEN LoadRaises(l, "ImportError") /\ UNCHANGED sys_modules
       ELSE /\ sys_modules' = sys_modules \cup {UnitName(load[l].unit)}
            /\ load' = [load EXCEPT ![l].pc = "idle", ![l].unit = 0,
                            ![l].loaded = Append(@, load[l].unit)]
    /\ UNCHANGED files

\* No method of loader l runs: a call of __del__ from its holder, and its
\* deallocation, wait for a running load_raw_config.
NoLoadRuns(l) == load[l].pc = "idle"

\* The directory names are random and stand for nothing: here the
\* directory that loader l makes is numbered l.
DirNumbered(l) == loader'[l].dir = l

\* The acquisitions, loads and releases of the loaders, interleaved.
LoadNext ==
    \E l \in Loaders :
        \/ InitMakeDir(l) /\ DirNumbered(l) /\ UNCHANGED <<other_than_loader>>
        \/ InitBindPath(l) /\ UNCHANGED <<other_than_loader>>
        \/ InitAppend(l) /\ UNCHANGED <<other_than_loader>>
        \/ LoadCopy(l) /\ UNCHANGED <<other_than_load>>
        \/ \E runs \in BOOLEAN :
              LoadImport(l, runs) /\ UNCHANGED <<other_than_load>>
        \/ NoLoadRuns(l) /\ DelCalled(l) /\ UNCHANGED <<other_than_loader>>
        \/ NoLoadRuns(l) /\ DelByGc(l) /\ UNCHANGED <<other_than_loader>>
        \/ DelRemove(l) /\ UNCHANGED <<other_than_loader>>
        \/ DelCleanup(l) /\ UNCHANGED <<other_than_loader>>

Init == LoaderInit /\ OvInit /\ ValInit /\ MainInit /\ LoadInit

SpecLoader == Init /\ [][LoaderNext]_vars

SpecOverride == Init /\ [][OvNext]_vars

SpecValidate == Init /\ [][ValNext]_vars

SpecMain == Init /\ [][MainNext]_vars

SpecLoad == Init /\ [][LoadNext]_vars

(***************************************************************************)
(* Claims about the loader.                                                *)
(***************************************************************************)

NotTmpName(e) == ~IsTmpName(e)

\* Loader l has released its entry: line 485 removed it.
Released(l) == loader[l].pc = "d_cleanup" \/ loader[l].detached

\* Loader l has acquired (line 482 appended) and not released.
Holds(l) == loader[l].stage = 3 /\ ~Released(l)

\* C1: under any interleaving of the acquisitions and releases of the
\* loaders on the one sys.path, the entries that were there before stay, in
\* their order; the other entries are exactly one per loader that has
\* acquired and not released, its own directory; a released loader has no
\* entry and no directory left; and once every loader is released, sys.path
\* is what it was before the first acquisition and no temporary directory
\* remains.
C1_LoaderIsolation ==
    /\ SelectSeq(sys_path, NotTmpName) = BasePath
    /\ Len(sys_path) = Len(BasePath) + Cardinality({l \in Loaders : Holds(l)})
    /\ \A l \in Loaders :
          loader[l].dir # 0 =>
              Count(sys_path, TmpName(loader[l].dir)) =
                  IF Holds(l) THEN 1 ELSE 0
    /\ \A l \in Loaders :
          loader[l].pc \in {"idle", "dead"} /\ Released(l) =>
              TmpName(loader[l].dir) \notin disk
    /\ (\A l \in Loaders : loader[l].pc = "dead") =>
          sys_path = BasePath /\ disk = {}

\* Every loader acquired in full, the loaders were alive together, and all
\* of them have been released.
C1_Witness ==
    \A l \in Loaders :
        loader[l].pc = "dead" /\ loader[l].stage = 3 /\ loader[l].detached

\* The copied file of unit k exists in directory number n.
FileExists(n, k) == TmpName(n) \in disk /\ <<n, k>> \in files

\* The places (loader, position) of the units that loaders have loaded.
LoadedPlaces ==
    {<<l, i>> \in Loaders \X (1..MaxUnits) : i <= Len(load[l].loaded)}

\* C11: from the end of a loader's acquisition until its release, its
\* temporary directory is an entry of the shared search path and holds the
\* copied file of every unit the loader has loaded so far, each under a
\* name no other load has, so that each of them is found by an import
\* under the name it was loaded with; this holds whatever the other loaders
\* acquire, load and release in between; and from the loader's release on
\* its directory is no entry of the search path and none of its files is
\* found through it.
C11_LoadedUnitsStayImportable ==
    /\ \A l \in Loaders :
          Holds(l) =>
              /\ Count(sys_path, TmpName(loader[l].dir)) = 1
              /\ TmpName(loader[l].dir) \in disk
              /\ \A i \in 1..Len(load[l].loaded) :
                    /\ FileExists(loader[l].dir, load[l].loaded[i])
                    /\ Findable(load[l].loaded[i])
                    /\ \A n \in 1..MaxLoaders :
                          <<n, load[l].loaded[i]>> \in files =>
                              n = loader[l].dir
    /\ \A p \in LoadedPlaces : \A q \in LoadedPlaces :
          p # q => load[p[1]].loaded[p[2]] # load[q[1]].loaded[q[2]]
    /\ \A l \in Loaders :
          loader[l].stage = 3 /\ Released(l) =>
              /\ Count(sys_path, TmpName(loader[l].dir)) = 0
              /\ \A k \in Units :
                    <<loader[l].dir, k>> \in files => ~Findable(k)

\* Two loaders were alive together and each loaded a unit; the first one
\* has been released in full while the second one still holds its entry
\* and its unit; a later load through the released loader failed.
C11_Witness ==
    /\ Len(load[1].loaded) >= 1
    /\ Released(1) /\ loader[1].pc = "idle"
    /\ load[1].exc = "FileNotFoundError"
    /\ Holds(2)
    /\ Len(load[2].loaded) >= 1
    /\ <<loader[1].dir, load[1].loaded[1]>> \in files

\* C2: no run of __del__ raises, be it a second run on the same loader, a
\* run after the directory has gone, or a run after __init__ failed
\* part-way.
C2_ReleaseNeverThrows ==
    \A l \in Loaders : loader[l].exc = "none"

\* C2, the second call alone: a caller's second call of __del__ on a loader
\* it has released does not raise to it.
C2_SecondCallPasses ==
    \A l \in Loaders :
        ~(loader[l].mode = "explicit" /\ loader[l].exc = "ValueError")

(***************************************************************************)
(* Claims about override_config_dict.                                      *)
(***************************************************************************)

Missing == [t |-> "missing", v |-> <<>>]

\* The value at a dotted path of a raw configuration, Missing when there is
\* none.
RECURSIVE Lookup(_, _)
Lookup(data, path) ==
    IF path = <<>> THEN data
    ELSE IF data.t = "dict"
    THEN IF Head(path) \in DOMAIN data.v
         THEN Lookup(data.v[Head(path)], Tail(path))
         ELSE Missing
    ELSE IF data.t = "list"
    THEN IF ListIndex(Head(path), Len(data.v)) >= 0
         THEN Lookup(data.v[ListIndex(Head(path), Len(data.v)) + 1],
                     Tail(path))
         ELSE Missing
    ELSE Missing

HasEquals(s) == \E i \in 1..Len(s) : s[i] = "="

\* The places of the first and of the last "=" of a string that has one.
FirstEq(s) ==
    CHOOSE i \in 1..Len(s) : s[i] = "=" /\ \A j \in 1..(i - 1) : s[j] # "="
LastEq(s) ==
    CHOOSE i \in 1..Len(s) : s[i] = "=" /\ \A j \in (i + 1)..Len(s) : s[j] # "="

\* The dotted path and the value text of an override string read at its
\* last "=", and at its first.
PathAtLast(s) == Split(SubSeq(s, 1, LastEq(s) - 1), ".")
TextAtLast(s) == SubSeq(s, LastEq(s) + 1, Len(s))
PathAtFirst(s) == Split(SubSeq(s, 1, FirstEq(s) - 1), ".")
TextAtFirst(s) == SubSeq(s, FirstEq(s) + 1, Len(s))

Resolves(path) == ExtractNestedType("ConfigSchema", path) # TypeError

\* The loop has processed an override and gone on.
Applied == override # None /\ ov_pc \in {"loop", "returned"}

\* C4: a call that fails raises one RuntimeError whose message is "Can't
\* parse override: " followed by the whole override string it was
\* processing; an override without "=" fails so; and an override the loop got
\* past without raising has been injected.
C4_FailureCarriesOverride ==
    /\ ov_pc = "raised" =>
          /\ ov_err.type = "RuntimeError"
          /\ ov_err.msg = s_cant_parse \o override.v
    /\ ov_pc # "raised" => ov_err = NoError
    /\ override # None /\ ~HasEquals(override.v) => ov_pc = "raised"
    /\ Applied => Lookup(config_dict, PathAtLast(override.v)) # Missing

\* An override string without "=" has failed.
C4_Witness ==
    /\ ov_pc = "raised"
    /\ override.v = s_dimension

\* C5: a turn of the loop whose override fails raises and leaves the raw
\* configuration as it was before that override; after the raise nothing is
\* applied and nothing is returned.
C5_NoPartialApplication ==
    [][/\ (ov_pc = "loop" /\ ov_iter # <<>>
             /\ ~OverrideOne(config_dict, Head(ov_iter)).ok)
          => (ov_pc' = "raised" /\ config_dict' = config_dict)
       /\ ov_pc = "raised"
          => (ov_pc' = "raised" /\ config_dict' = config_dict)]_vars

\* A call has raised with overrides after the failing one left.
C5_Witness ==
    /\ ov_pc = "raised"
    /\ ov_iter # <<>>
    /\ ov_err.cause = "inject_nested_value"

\* The places of the overrides in the argument: (list, place in the list).
Positions ==
    {p \in (1..MaxLists) \X (1..MaxOverrides) :
        /\ overrides # None
        /\ p[1] <= Len(overrides.v)
        /\ p[2] <= Len(overrides.v[p[1]].v)}

Given(p) == overrides.v[p[1]].v[p[2]].v

\* p is given before q: in an earlier list, or earlier in the same list.
Before(p, q) == p[1] < q[1] \/ (p[1] = q[1] /\ p[2] < q[2])

IsPrefix(a, b) == Len(a) <= Len(b) /\ SubSeq(b, 1, Len(a)) = a

\* The value an override string stands for.
ValueOf(s) ==
    Coerce(ExtractNestedType("ConfigSchema", PathAtLast(s)), TextAtLast(s)).val

\* C6: in the result of a call, the value at the path of an override is the
\* value of that override unless an override given later targets that path
\* (or one that holds it, or one inside it): of two overrides of the same
\* path the later one decides.
C6_LaterOverrideWins ==
    ov_pc = "returned" =>
        \A p \in Positions :
            (\A q \in Positions :
                Before(p, q) =>
                    /\ ~IsPrefix(PathAtLast(Given(p)), PathAtLast(Given(q)))
                    /\ ~IsPrefix(PathAtLast(Given(q)), PathAtLast(Given(p))))
            => Lookup(config_dict, PathAtLast(Given(p))) = ValueOf(Given(p))

\* A call given two overrides of one path with different values, in two
\* lists, has returned.
C6_Witness ==
    /\ ov_pc = "returned"
    /\ \E p, q \in Positions :
          /\ p[1] < q[1]
          /\ PathAtLast(Given(p)) = PathAtLast(Given(q))
          /\ ValueOf(Given(p)) # ValueOf(Given(q))

\* The place of an override in the order in which the loop takes them, and
\* the number of overrides the loop has taken so far.
Rank(p) == Cardinality({q \in Positions : Before(q, p)}) + 1
Taken == Cardinality(Positions) - Len(ov_iter)

\* C12: override_config_dict works on the object it was given and returns
\* that very object; given None or no override it returns the object as it
\* was at the call; and when the k-th override of a call fails, the caller's
\* object keeps what the overrides 1 to k-1 of that call did to it: at the
\* path of each of them stands its value, unless one of them given after it
\* targets that path (or one that holds it, or one inside it).
C12_InPlaceNoRollback ==
    /\ ov_pc # "idle" => ov_ref = "caller" /\ raw_config = config_dict
    /\ ov_ret = (IF ov_pc = "returned" THEN "caller" ELSE "none")
    /\ ov_pc # "idle" /\ (overrides = None \/ Positions = {}) =>
          ov_pc # "raised" /\ raw_config = ov_given
    /\ ov_pc = "raised" =>
          \A p \in Positions :
              (/\ Rank(p) < Taken
               /\ \A q \in Positions :
                     Before(p, q) /\ Rank(q) < Taken =>
                         /\ ~IsPrefix(PathAtLast(Given(p)), PathAtLast(Given(q)))
                         /\ ~IsPrefix(PathAtLast(Given(q)), PathAtLast(Given(p))))
              => Lookup(raw_config, PathAtLast(Given(p))) = ValueOf(Given(p))

\* The second or a later override of a call has failed, and the caller's
\* object is not what it was at the call: it holds the value of the first
\* override, which it did not hold before.
C12_Witness ==
    /\ ov_pc = "raised"
    /\ Taken >= 2
    /\ raw_config # ov_given
    /\ \E p \in Positions :
          /\ Rank(p) = 1
          /\ Lookup(raw_config, PathAtLast(Given(p))) = ValueOf(Given(p))
          /\ Lookup(ov_given, PathAtLast(Given(p))) # ValueOf(Given(p))

IsStrWithoutComma(x) == x.t = "str" /\ \A i \in 1..Len(x.v) : x.v[i] # ","

\* C7: what an applied override has injected, by the type of its path: for
\* a list type the list of the pieces of the text between its commas, for
\* int and float the number the text denotes, for every other type (bool,
\* str, enum, Optional[...], a schema) the text itself.
C7_CoercionByType ==
    Applied =>
        LET path == PathAtLast(override.v)
            text == TextAtLast(override.v)
            T == ExtractNestedType("ConfigSchema", path)
            got == Lookup(config_dict, path)
        IN  /\ T \in {"List[str]", "List[RelationSchema]"} =>
                  /\ got.t = "list"
                  /\ \A i \in 1..Len(got.v) : IsStrWithoutComma(got.v[i])
                  /\ JoinWith([i \in 1..Len(got.v) |-> got.v[i].v], ",") = text
            /\ T = "int" => got.t = "int" /\ got = ParseInt(text).val
            /\ T = "float" => got.t = "float" /\ got = ParseFloat(text).val
            /\ T \notin {"List[str]", "List[RelationSchema]", "int", "float"}
                  => got = PyStr(text)
            /\ override.v = Override(s_dimension, s_400) => got = PyInt(400)
            /\ override.v = Override(s_edge_paths, s_abc_list) =>
                  got = PyList(<<PyStr(s_a), PyStr(s_b), PyStr(s_c)>>)
            /\ override.v = Override(s_init_scale, s_2_5) => got = PyFloat(25, 1)
            /\ override.v = Override(s_bias, s_true) => got = PyStr(s_true)

\* "dimension=400" has been applied.
C7_Witness ==
    /\ Applied
    /\ override.v = Override(s_dimension, s_400)

NumberOfEquals(s) == Cardinality({i \in 1..Len(s) : s[i] = "="})

\* C8 as stated: an override whose value text contains "=" is applied to the
\* field named before the separator, with the whole value text.
C8_ValueMayContainEquals ==
    (/\ override # None
     /\ HasEquals(override.v)
     /\ HasEquals(TextAtFirst(override.v))
     /\ Resolves(PathAtFirst(override.v)))
    => /\ ov_pc # "raised"
       /\ Lookup(config_dict, PathAtFirst(override.v)) =
              Coerce(ExtractNestedType("ConfigSchema", PathAtFirst(override.v)),
                     TextAtFirst(override.v)).val

\* C8 as amended: the split is at the last "=".  An applied override has set
\* the path before its last "=" to the value of the text after it, a text
\* without "="; an override with several "=" whose text before the last "="
\* resolves to no path has failed, "checkpoint_path=/x=y" among them.
C8_SplitAtLastEquals ==
    /\ Applied =>
          /\ HasEquals(override.v)
          /\ ~HasEquals(TextAtLast(override.v))
          /\ Lookup(config_dict, PathAtLast(override.v)) = ValueOf(override.v)
    /\ (/\ override # None
        /\ NumberOfEquals(override.v) >= 2
        /\ ~Resolves(PathAtLast(override.v)))
       => ov_pc = "raised"
    /\ (override # None /\ override.v = Override(s_checkpoint_path, s_x_eq_y))
       => ov_pc = "raised"

\* "checkpoint_path=/x=y" has been processed.
C8_Witness ==
    /\ override # None
    /\ override.v = Override(s_checkpoint_path, s_x_eq_y)
    /\ ov_pc = "raised"

(***************************************************************************)
(* Claims about the validation and about parse_config.                     *)
(***************************************************************************)

\* Whether a flag of a configuration is given and true.
IsSet(c, field) == field \in DOMAIN c.v /\ c.v[field] = PyBool(TRUE)

EntityKeys(c) == DOMAIN c.v[s_entities].v

RelationAt(c, i) == c.v[s_relations].v[i].v

\* The places (from 1) of the relations of c whose lhs or rhs is no key of
\* the entities.
Offending(c) ==
    {i \in 1..Len(c.v[s_relations].v) :
        \/ RelationAt(c, i)[s_lhs].v \notin EntityKeys(c)
        \/ RelationAt(c, i)[s_rhs].v \notin EntityKeys(c)}

\* The three cross-field invariants.
SidesKnown(c) == Offending(c) = {}

DynamicOk(c) == IsSet(c, s_dynamic_relations) => Len(c.v[s_relations].v) = 1

NegsOk(c) ==
    ~(IsSet(c, s_disable_lhs_negs) /\ IsSet(c, s_disable_rhs_negs))

CrossFieldOk(c) == SidesKnown(c) /\ DynamicOk(c) /\ NegsOk(c)

\* The message names the relation at place i of c: its name, its index
\* (counted from 0) after "#", and the side that is unknown.
NamesRelation(msg, c, i) ==
    \E side \in {<<s_msg_unknown_lhs, s_lhs>>, <<s_msg_unknown_rhs, s_rhs>>} :
        /\ RelationAt(c, i)[side[2]].v \notin EntityKeys(c)
        /\ msg = s_msg_relation_type \o RelationAt(c, i)[s_name].v
                 \o s_msg_open \o Decimal(i - 1)
                 \o side[1] \o RelationAt(c, i)[side[2]].v

\* C3: a construction that gives a configuration object gives one that
\* satisfies the three cross-field invariants; a construction from values
\* that violate one of them raises and gives no object; when a relation has
\* an unknown side the error names the first such relation by its name and
\* its index; and what parse_config holds or returns satisfies the three.
C3_CrossFieldInvariants ==
    /\ built.status = "ok" =>
          /\ built.config = built.input
          /\ CrossFieldOk(built.config)
    /\ (built.status # "none" /\ ~CrossFieldOk(built.input)) =>
          /\ built.status = "raised"
          /\ built.config = None
          /\ built.err.type = "ValueError"
    /\ (built.status # "none" /\ ~SidesKnown(built.input)) =>
          \E i \in Offending(built.input) :
              /\ \A j \in Offending(built.input) : i <= j
              /\ NamesRelation(built.err.msg, built.input, i)
    /\ parse.pc \in {"return", "returned"} => CrossFieldOk(parse.config)
    /\ parse.pc = "returned" => parse.result = parse.config
    /\ (/\ parse.pc # "idle"
        /\ HasType("ConfigSchema", parse.input)
        /\ ~CrossFieldOk(parse.input))
       => parse.config = None /\ parse.result = None

\* A construction has raised for a second relation whose right-hand side is
\* unknown, the first relation being in order.
C3_Witness ==
    /\ built.status = "raised"
    /\ Offending(built.input) = {2}
    /\ RelationAt(built.input, 2)[s_lhs].v \in EntityKeys(built.input)

\* The places of the critical records in the log.
Criticals == {i \in 1..Len(log) : log[i].level = "CRITICAL"}

\* A raw configuration that passes the validation.
Valid(raw) == HasType("ConfigSchema", raw) /\ CrossFieldOk(raw)

\* C10: a call of parse_config on a raw configuration that fails the
\* validation is in its except clause or has raised SystemExit, and holds
\* and returns no configuration; when it has raised SystemExit the status is
\* not 0 and the two critical records are in the log; a call that returns
\* was given a valid raw configuration; and an error of from_dict other than
\* a validation failure leaves the function as it is, with nothing logged at
\* critical level and no SystemExit.
C10_ValidationFailureExits ==
    /\ (parse.pc # "idle" /\ parse.fault = "none" /\ ~Valid(parse.input)) =>
          /\ parse.pc \in {"except", "critical1", "critical2", "exited"}
          /\ parse.config = None
          /\ parse.result = None
    /\ parse.pc = "exited" =>
          /\ parse.code # 0
          /\ parse.err.type = "SystemExit"
          /\ Cardinality(Criticals) = 2
          /\ log[Len(log) - 1].msg = s_msg_aborting
          /\ parse.fault = "none"
          /\ ~Valid(parse.input)
    /\ parse.pc # "exited" => parse.code = 0
    /\ parse.pc \in {"return", "returned"} =>
          /\ Valid(parse.input)
          /\ parse.fault = "none"
          /\ Criticals = {}
    /\ parse.fault # "none" =>
          /\ parse.pc = "propagated"
          /\ parse.err.type = parse.fault
          /\ parse.result = None
          /\ Criticals = {}
    /\ parse.pc = "propagated" => parse.fault # "none"

\* parse_config has raised SystemExit for a raw configuration of the right
\* shape that sets both flags.
C10_Witness ==
    /\ parse.pc = "exited"
    /\ HasType("ConfigSchema", parse.input)
    /\ ~NegsOk(parse.input)

(***************************************************************************)
(* Claims about main.                                                      *)
(***************************************************************************)

\* The places of the strings given after the -p flags: (flag, place after
\* the flag).
ParamPlaces ==
    {p \in (1..MaxLists) \X (1..MaxOverrides) :
        /\ opt.param # None
        /\ p[1] <= Len(opt.param.v)
        /\ p[2] <= Len(opt.param.v[p[1]].v)}

ParamAt(p) == opt.param.v[p[1]].v[p[2]]

\* C9: every override the engine processes in a run of main is one of the
\* strings given after a -p flag, whole; and the value printed for the query
\* is the value of the last -p string that targets the query.
C9_ParamsReachEngineWhole ==
    /\ override # None => \E p \in ParamPlaces : override = ParamAt(p)
    /\ main_pc = "done" =>
          \A p \in ParamPlaces :
              (/\ HasEquals(ParamAt(p).v)
               /\ PathAtLast(ParamAt(p).v) = <<opt.query>>
               /\ \A q \in ParamPlaces :
                     (q[1] > p[1] \/ (q[1] = p[1] /\ q[2] > p[2])) =>
                         ~HasEquals(ParamAt(q).v))
              => stdout = <<PyStrOf(ValueOf(ParamAt(p).v))>>

====
